---- MODULE Spec2Model ----
\* Model of the keybase-chat-tui concurrency core: the Controller event loop
\* (src/src/controller.rs), Application State and its observers
\* (src/src/state.rs), the Conversation type (src/src/types.rs) and the
\* Listener reader task (src/src/client.rs).
EXTENDS Integers, Sequences, FiniteSets, TLC

\* ---------------------------------------------------------------- bounds
MaxUiCommands == 2
MaxEvents == 2
MaxStored == 3
MaxStamp == 2

\* ------------------------------------------------------ program constants
FetchCount == 20
ChannelCapacity == 32

\* ------------------------------------------------------------- universes
ConvIds == {"A", "B"}
UnknownId == "Z"
Texts == {"hi"}
None == "None"

\* Channel descriptor of a conversation (types.rs Channel).
ChannelOf(id) == [name |-> "chan" \o id, topic_name |-> "", members_type |-> "team"]

\* KeybaseConversation as the gateway returns it (types.rs 52-57).
KeybaseConversation(id) == [id |-> id, channel |-> ChannelOf(id), unread |-> FALSE]

\* The conversation lists the backend may answer {"method":"list"} with.
ConversationLists ==
    {<<>>}
    \cup {<<KeybaseConversation(a)>> : a \in ConvIds}
    \cup {l \in {<<KeybaseConversation(a), KeybaseConversation(b)>> :
                    a \in ConvIds, b \in ConvIds} : l[1].id # l[2].id}

UiMessages ==
    {[type |-> "SendMessage", text |-> t] : t \in Texts}
    \cup {[type |-> "SwitchConversation", conversation_id |-> c] :
            c \in ConvIds \cup {UnknownId}}

VARIABLES
    current_conversation,  \* ApplicationStateInner.current_conversation
    conversations,         \* ApplicationStateInner.conversations (id -> Conversation)
    observers,             \* ApplicationStateInner.observers, in registration order
    client_receiver,       \* Controller.client_receiver: ClientMessages not yet received
    ui_receiver,           \* Controller.ui_receiver: UiMessages not yet received
    panicked,              \* the Controller thread has panicked
    in_flight,             \* gateway subprocesses launched and not yet finished
    stdout,                \* lines the listener subprocess wrote, not yet read
    history,               \* backend: every chat message emitted, oldest first
    backend_list,          \* backend: the conversation list it serves
    started,               \* the session has issued fetch_conversations
    last,                  \* the message the last Controller step received
    issued,                \* client calls the last Controller step made
    fired,                 \* observer notifications the last Controller step fired
    fetch_calls,           \* per conversation id: fetch_messages calls made by switching
    placed,                \* number of UiMessages ever placed on the UI channel
    processed,             \* listener events the Controller has received, in order
    client,                \* struct Client: which of its Option fields are Some
    child,                 \* the listener subprocess (keybase chat api-listen)
    reader,                \* the reader task spawned by start_listener
    executor,              \* commands run_api_command has been called with
    handles,               \* Receivers handed out by get_receiver
    session,               \* the task that owns the Client
    facade_calls           \* calls of fetch_conversations, fetch_messages, send_message

\* The variables of the tokio Client of client.rs.
clientVars == <<client, child, reader, executor, handles, session,
                facade_calls>>

vars == <<current_conversation, conversations, observers, client_receiver,
          ui_receiver, panicked, in_flight, stdout, history, backend_list,
          started, last, issued, fired, fetch_calls, placed, processed,
          client, child, reader, executor, handles, session, facade_calls>>

\* ------------------------------------------------------- sequence helpers
Take(s, n) == SubSeq(s, 1, IF Len(s) < n THEN Len(s) ELSE n)

RemoveAt(s, i) == SubSeq(s, 1, i - 1) \o SubSeq(s, i + 1, Len(s))

RECURSIVE Reverse(_)
Reverse(s) == IF s = <<>> THEN <<>> ELSE Reverse(Tail(s)) \o <<Head(s)>>

\* ------------------------------------------------------------- types.rs
\* impl From<KeybaseConversation> for Conversation
From(kb) == [id |-> kb.id, fetched |-> FALSE, messages |-> <<>>, data |-> kb]

\* Mutant of Conversation_insert_message: self.messages.push(message)
Conversation_insert_message_push(convo, message) ==
    [convo EXCEPT !.messages = @ \o <<message>>]

\* Conversation::insert_message: self.messages.insert(0, message)
Conversation_insert_message(convo, message) ==
    [convo EXCEPT !.messages = <<message>> \o @]

\* Mutant of Conversation_insert_messages: extends self.messages with the
\* batch, without the swap.
Conversation_insert_messages_no_swap(convo, messages) ==
    [convo EXCEPT !.messages = @ \o messages]

\* Conversation::insert_messages: swap(self.messages, messages), then
\* self.messages.extend(messages): the batch first, what was there after it.
Conversation_insert_messages(convo, messages) ==
    [convo EXCEPT !.messages = messages \o @]

\* ------------------------------------------------------------- state.rs
\* A view of ApplicationStateInner threaded through one Controller step;
\* fired collects the observer calls the step has made so far.
StateNow == [current_conversation |-> current_conversation,
             conversations |-> conversations,
             fired |-> <<>>]

\* self.observers.iter_mut().for_each(|o| o.<method>(args))
\* Mutant of Notify: the observers are visited last-registered first.
Notify_reversed(method, args) ==
    [i \in 1..Len(observers) |->
        [observer |-> observers[Len(observers) + 1 - i], method |-> method,
         args |-> args]]

Notify(method, args) ==
    [i \in 1..Len(observers) |->
        [observer |-> observers[i], method |-> method, args |-> args]]

\* HashMap::insert
MapInsert(map, key, value) ==
    [k \in DOMAIN map \cup {key} |-> IF k = key THEN value ELSE map[k]]

\* Mutant of InsertAll: the list is walked from its end, so the first of two
\* entries with one id is the one that stays.
RECURSIVE InsertAll_from_end(_, _)
InsertAll_from_end(map, list) ==
    IF list = <<>> THEN map
    ELSE MapInsert(InsertAll_from_end(map, Tail(list)), Head(list).id, Head(list))

RECURSIVE InsertAll(_, _)
InsertAll(map, list) ==
    IF list = <<>> THEN map
    ELSE InsertAll(MapInsert(map, Head(list).id, Head(list)), Tail(list))

\* Mutant of insert_conversation: the map is rebuilt around the new entry.
insert_conversation_alone(st, conversation) ==
    [st EXCEPT !.conversations =
        MapInsert([k \in {} |-> None], conversation.id, conversation)]

\* ApplicationStateInner::insert_conversation
insert_conversation(st, conversation) ==
    [st EXCEPT !.conversations = MapInsert(@, conversation.id, conversation)]

\* ApplicationStateInner::get_conversation: Some(convo) is <<convo>>, None is <<>>
get_conversation(st, conversation_id) ==
    IF conversation_id \in DOMAIN st.conversations
    THEN <<st.conversations[conversation_id]>>
    ELSE <<>>

\* ApplicationStateInner::get_conversation_mut
get_conversation_mut(st, conversation_id) ==
    IF conversation_id \in DOMAIN st.conversations
    THEN <<st.conversations[conversation_id]>>
    ELSE <<>>

\* ApplicationStateInner::get_conversations: the values of the map
get_conversations(st) == {st.conversations[k] : k \in DOMAIN st.conversations}

\* ApplicationStateInner::get_current_conversation (is it Some?)
has_current_conversation(st) ==
    /\ st.current_conversation # None
    /\ st.current_conversation \in DOMAIN st.conversations

\* ApplicationStateInner::get_current_conversation: Some(convo) is <<convo>>
get_current_conversation(st) ==
    IF st.current_conversation # None
    THEN IF st.current_conversation \in DOMAIN st.conversations
         THEN <<st.conversations[st.current_conversation]>>
         ELSE <<>>
    ELSE <<>>

\* Mutant of insert_message: the observers are told before the conversation
\* is looked up.
insert_message_notifies_first(st, conversation_id, message) ==
    LET is_active == /\ has_current_conversation(st)
                     /\ st.current_conversation = conversation_id
        told == [st EXCEPT !.fired = @ \o Notify("on_message",
                                  <<message, conversation_id, is_active>>)]
    IN  IF conversation_id \in DOMAIN st.conversations
        THEN [told EXCEPT !.conversations[conversation_id] =
                            Conversation_insert_message(@, message)]
        ELSE told

\* Mutant of insert_message: is_active is true whenever a current
\* conversation is set.
insert_message_active_when_any_current(st, conversation_id, message) ==
    LET is_active == has_current_conversation(st)
    IN  IF conversation_id \in DOMAIN st.conversations
        THEN [st EXCEPT
                !.fired = @ \o Notify("on_message",
                                      <<message, conversation_id, is_active>>),
                !.conversations[conversation_id] =
                    Conversation_insert_message(@, message)]
        ELSE st

\* Mutant of insert_message: stores the message only when the conversation
\* is the one on display.
insert_message_active_only(st, conversation_id, message) ==
    LET is_active == /\ has_current_conversation(st)
                     /\ st.current_conversation = conversation_id
    IN  IF conversation_id \in DOMAIN st.conversations /\ is_active
        THEN [st EXCEPT
                !.fired = @ \o Notify("on_message",
                                      <<message, conversation_id, is_active>>),
                !.conversations[conversation_id] =
                    Conversation_insert_message(@, message)]
        ELSE st

\* ApplicationStateInner::insert_message
insert_message(st, conversation_id, message) ==
    LET is_active == /\ has_current_conversation(st)
                     /\ st.current_conversation = conversation_id
    IN  IF conversation_id \in DOMAIN st.conversations
        THEN [st EXCEPT
                !.fired = @ \o Notify("on_message",
                                      <<message, conversation_id, is_active>>),
                !.conversations[conversation_id] =
                    Conversation_insert_message(@, message)]
        ELSE st

\* Mutant of set_current_conversation: the pointer is written before the
\* lookup.
set_current_conversation_unchecked(st, conversation_id) ==
    IF conversation_id \in DOMAIN st.conversations
    THEN [st EXCEPT
            !.current_conversation = conversation_id,
            !.fired = @ \o Notify("on_conversation_change",
                                  <<st.conversations[conversation_id]>>)]
    ELSE [st EXCEPT !.current_conversation = conversation_id]

\* Mutant of set_current_conversation: an unknown id clears the pointer.
set_current_conversation_clears(st, conversation_id) ==
    IF conversation_id \in DOMAIN st.conversations
    THEN [st EXCEPT
            !.current_conversation = conversation_id,
            !.fired = @ \o Notify("on_conversation_change",
                                  <<st.conversations[conversation_id]>>)]
    ELSE [st EXCEPT !.current_conversation = None]

\* Mutant of set_current_conversation: moves the pointer, tells only the
\* first observer.
set_current_conversation_first_observer_only(st, conversation_id) ==
    IF conversation_id \in DOMAIN st.conversations
    THEN [st EXCEPT
            !.current_conversation = conversation_id,
            !.fired = @ \o SubSeq(Notify("on_conversation_change",
                                         <<st.conversations[conversation_id]>>), 1, 1)]
    ELSE st

\* ApplicationStateInner::set_current_conversation
set_current_conversation(st, conversation_id) ==
    IF conversation_id \in DOMAIN st.conversations
    THEN [st EXCEPT
            !.current_conversation = conversation_id,
            !.fired = @ \o Notify("on_conversation_change",
                                  <<st.conversations[conversation_id]>>)]
    ELSE st

\* Mutant of set_conversations: the observers are told once per conversation.
set_conversations_per_item(st, list) ==
    [st EXCEPT
        !.fired = @ \o [i \in 1..(Len(list) * Len(observers)) |->
                          Notify("on_conversations_added",
                                 <<SubSeq(list, ((i - 1) \div Len(observers)) + 1,
                                                ((i - 1) \div Len(observers)) + 1)>>)
                              [((i - 1) % Len(observers)) + 1]],
        !.conversations = InsertAll(@, list)]

\* ApplicationStateInner::set_conversations
set_conversations(st, list) ==
    [st EXCEPT
        !.fired = @ \o Notify("on_conversations_added", <<list>>),
        !.conversations = InsertAll(@, list)]

\* ------------------------------------------------------------ client calls
fetch_messages(conversation, count) ==
    [method |-> "read", channel |-> conversation.channel, num |-> count]

send_message(channel, message) ==
    [method |-> "send", channel |-> channel, body |-> message]

fetch_conversations == [method |-> "list"]

\* ---------------------------------------------------------------- backend
\* The messages of one channel, newest first.
ChannelMessages(channel) ==
    Reverse(SelectSeq(history, LAMBDA m : ChannelOf(m.conversation_id) = channel))

\* What the one-shot subprocess answers to a command, as a ClientMessage.
Respond(command) ==
    CASE command.method = "list" ->
            [type |-> "ConversationList", conversations |-> backend_list]
      [] command.method = "read" ->
            [type |-> "MessageList",
             messages |-> LET ms == Take(ChannelMessages(command.channel), command.num)
                          IN  [i \in 1..Len(ms) |-> [msg |-> ms[i]]]]
      [] command.method = "send" ->
            [type |-> "MessageSent"]

\* One line of the listener subprocess: {"type":"chat","msg":{"msg":<Message>}}
ChatLine(message) == [type |-> "chat", msg |-> [msg |-> message]]

\* from_value::<ListenerEvent>: the "chat" tag selects ChatMessage(MessageWrapper)
ParseLine(line) == [type |-> "ChatMessage", msg |-> line.msg]

\* A line on which from_str or from_value::<ListenerEvent> fails: no JSON,
\* or JSON that is not an event of type "chat".
MalformedLine == [type |-> "malformed"]

\* from_value::<ListenerEvent>(parsed) succeeds on the line.
IsListenerEvent(line) == line.type = "chat"

\* -------------------------------------------------------------------- Init
\* Client::new: the channel is made, the listener subprocess is started and
\* its reader task spawned; no command has been run yet.
ClientNew ==
    /\ client = [receiver |-> "Some", subscriber |-> "Some", listener |-> "Some"]
    /\ child = "running"
    /\ reader = "running"
    /\ executor = <<>>
    /\ handles = 0
    /\ session = "running"
    /\ facade_calls = 0

Init ==
    /\ current_conversation = None
    /\ conversations = [k \in {} |-> None]
    /\ observers = <<"o1", "o2">>
    /\ client_receiver = <<>>
    /\ ui_receiver = <<>>
    /\ panicked = FALSE
    /\ in_flight = <<>>
    /\ stdout = <<>>
    /\ history = <<>>
    /\ backend_list \in ConversationLists
    /\ started = FALSE
    /\ last = [arm |-> "none", msg |-> [type |-> "none"]]
    /\ issued = <<>>
    /\ fired = <<>>
    /\ fetch_calls = [c \in ConvIds |-> 0]
    /\ placed = 0
    /\ processed = <<>>
    /\ ClientNew

\* ------------------------------------------------------------ environment
\* main: the session asks for the conversation list once, before the loop.
Start ==
    /\ ~started
    /\ started' = TRUE
    /\ in_flight' = Append(in_flight, fetch_conversations)
    /\ UNCHANGED <<current_conversation, conversations, observers,
                   client_receiver, ui_receiver, panicked, stdout, history,
                   backend_list, last, issued, fired, fetch_calls, placed,
                   processed>>
    /\ UNCHANGED clientVars

\* The front end places a command on the UI channel.
UiPlace(m) ==
    /\ started
    /\ ~panicked
    /\ placed < MaxUiCommands
    /\ ui_receiver' = Append(ui_receiver, m)
    /\ placed' = placed + 1
    /\ UNCHANGED <<current_conversation, conversations, observers,
                   client_receiver, panicked, in_flight, stdout, history,
                   backend_list, started, last, issued, fired, fetch_calls,
                   processed>>
    /\ UNCHANGED clientVars

\* The backend emits a chat message: it enters the channel's history and the
\* listener subprocess writes one line for it.
BackendEmit(c) ==
    /\ child = "running"
    /\ Len(history) < MaxEvents
    /\ LET message == [conversation_id |-> c, ts |-> Len(history) + 1]
       IN  /\ history' = Append(history, message)
           /\ stdout' = Append(stdout, ChatLine(message))
    /\ UNCHANGED <<current_conversation, conversations, observers,
                   client_receiver, ui_receiver, panicked, in_flight,
                   backend_list, started, last, issued, fired, fetch_calls,
                   placed, processed>>
    /\ UNCHANGED clientVars

\* One-shot gateway subprocess number i finishes; its answer is delivered to
\* the Controller's client channel. Subprocesses finish in any order.
GatewayComplete(i) ==
    /\ ~panicked
    /\ i \in 1..Len(in_flight)
    /\ client_receiver' = Append(client_receiver, Respond(in_flight[i]))
    /\ in_flight' = RemoveAt(in_flight, i)
    /\ UNCHANGED <<current_conversation, conversations, observers,
                   ui_receiver, panicked, stdout, history, backend_list,
                   started, last, issued, fired, fetch_calls, placed,
                   processed>>
    /\ UNCHANGED clientVars

\* Mutant of ReaderTask: a line read while the channel still holds an
\* unreceived message is dropped instead of forwarded.
ReaderTask_drops_when_busy ==
    /\ ~panicked
    /\ reader = "running"
    /\ stdout # <<>>
    /\ IF IsListenerEvent(Head(stdout))
       THEN /\ Len(client_receiver) < ChannelCapacity
            /\ client_receiver' = IF client_receiver = <<>>
                                  THEN <<ParseLine(Head(stdout))>>
                                  ELSE client_receiver
            /\ reader' = reader
       ELSE /\ client_receiver' = client_receiver
            /\ reader' = "panicked"
    /\ stdout' = Tail(stdout)
    /\ UNCHANGED <<current_conversation, conversations, observers,
                   ui_receiver, panicked, in_flight, history, backend_list,
                   started, last, issued, fired, fetch_calls, placed,
                   processed>>
    /\ UNCHANGED <<client, child, executor, handles, session, facade_calls>>

\* Mutant of ReaderTask: the channel holds one event at most.
ReaderTask_rendezvous ==
    /\ ~panicked
    /\ reader = "running"
    /\ stdout # <<>>
    /\ IF IsListenerEvent(Head(stdout))
       THEN /\ client_receiver = <<>>
            /\ client_receiver' = Append(client_receiver, ParseLine(Head(stdout)))
            /\ reader' = reader
       ELSE /\ client_receiver' = client_receiver
            /\ reader' = "panicked"
    /\ stdout' = Tail(stdout)
    /\ UNCHANGED <<current_conversation, conversations, observers,
                   ui_receiver, panicked, in_flight, history, backend_list,
                   started, last, issued, fired, fetch_calls, placed,
                   processed>>
    /\ UNCHANGED <<client, child, executor, handles, session, facade_calls>>

\* Mutant of ReaderTask: a line that does not parse is skipped and the loop
\* goes on.
ReaderTask_skips_malformed ==
    /\ ~panicked
    /\ reader = "running"
    /\ stdout # <<>>
    /\ IF IsListenerEvent(Head(stdout))
       THEN /\ Len(client_receiver) < ChannelCapacity
            /\ client_receiver' = Append(client_receiver, ParseLine(Head(stdout)))
            /\ reader' = reader
       ELSE /\ client_receiver' = client_receiver
            /\ reader' = reader
    /\ stdout' = Tail(stdout)
    /\ UNCHANGED <<current_conversation, conversations, observers,
                   ui_receiver, panicked, in_flight, history, backend_list,
                   started, last, issued, fired, fetch_calls, placed,
                   processed>>
    /\ UNCHANGED <<client, child, executor, handles, session, facade_calls>>

\* One turn of the reader loop: the next line is parsed (unwrap) and the
\* event sent, which waits while the channel is full.
ReaderTask ==
    /\ ~panicked
    /\ reader = "running"
    /\ stdout # <<>>
    /\ IF IsListenerEvent(Head(stdout))
       THEN /\ Len(client_receiver) < ChannelCapacity
            /\ client_receiver' = Append(client_receiver, ParseLine(Head(stdout)))
            /\ reader' = reader
       ELSE /\ client_receiver' = client_receiver
            /\ reader' = "panicked"
    /\ stdout' = Tail(stdout)
    /\ UNCHANGED <<current_conversation, conversations, observers,
                   ui_receiver, panicked, in_flight, history, backend_list,
                   started, last, issued, fired, fetch_calls, placed,
                   processed>>
    /\ UNCHANGED <<client, child, executor, handles, session, facade_calls>>

\* ------------------------------------------------------ Controller::step
\* Each select! arm is an operator from the state view st to the outcome of
\* the arm: the new state view, the client calls made, and whether the arm
\* panicked.
Outcome(st, calls) == [st |-> st, calls |-> calls, panic |-> FALSE]

\* Mutant of OnConversationList: fetches the messages of every listed
\* conversation, not only of the first.
OnConversationList_fetch_all(st, list) ==
    IF list = <<>>
    THEN [st |-> st, calls |-> <<>>, panic |-> TRUE]
    ELSE LET id == list[1].id
             st1 == set_conversations(st, [i \in 1..Len(list) |-> From(list[i])])
             st2 == set_current_conversation(st1, id)
         IN  Outcome(st2, [i \in 1..Len(list) |-> fetch_messages(list[i], FetchCount)])

\* ClientMessage::ApiResponse(ApiResponse::ConversationList {conversations})
OnConversationList(st, list) ==
    IF list = <<>>
    THEN \* conversations[0] on an empty Vec: index out of bounds
         [st |-> st, calls |-> <<>>, panic |-> TRUE]
    ELSE LET call == fetch_messages(list[1], FetchCount)
             id == list[1].id
             st1 == set_conversations(st, [i \in 1..Len(list) |-> From(list[i])])
             st2 == set_current_conversation(st1, id)
         IN  Outcome(st2, <<call>>)

\* Mutant of OnMessageList: the batch goes into the conversation on display
\* instead of the one its first message names.
OnMessageList_into_current(st, messages) ==
    IF messages # <<>>
    THEN IF has_current_conversation(st)
         THEN Outcome([st EXCEPT !.conversations[st.current_conversation] =
                          Conversation_insert_messages(@,
                              [i \in 1..Len(messages) |-> messages[i].msg])],
                      <<>>)
         ELSE Outcome(st, <<>>)
    ELSE Outcome(st, <<>>)

\* Mutant of OnMessageList: an empty answer marks the conversation on
\* display as fetched.
OnMessageList_empty_marks_fetched(st, messages) ==
    IF messages # <<>>
    THEN LET conversation_id == messages[1].msg.conversation_id
         IN  IF conversation_id \in DOMAIN st.conversations
             THEN Outcome([st EXCEPT !.conversations[conversation_id] =
                              Conversation_insert_messages(@,
                                  [i \in 1..Len(messages) |-> messages[i].msg])],
                          <<>>)
             ELSE Outcome(st, <<>>)
    ELSE IF has_current_conversation(st)
         THEN Outcome([st EXCEPT
                          !.conversations[st.current_conversation].fetched = TRUE],
                      <<>>)
         ELSE Outcome(st, <<>>)

\* ClientMessage::ApiResponse(ApiResponse::MessageList{messages})
OnMessageList(st, messages) ==
    IF messages # <<>>
    THEN LET conversation_id == messages[1].msg.conversation_id
         IN  IF conversation_id \in DOMAIN st.conversations
             THEN Outcome([st EXCEPT !.conversations[conversation_id] =
                              Conversation_insert_messages(@,
                                  [i \in 1..Len(messages) |-> messages[i].msg])],
                          <<>>)
             ELSE Outcome(st, <<>>)
    ELSE Outcome(st, <<>>)

\* ClientMessage::ListenerEvent(ListenerEvent::ChatMessage(msg))
OnChatMessage(st, msg) ==
    LET conversation_id == msg.msg.conversation_id
    IN  Outcome(insert_message(st, conversation_id, msg.msg), <<>>)

\* Mutant of OnSendMessage: addresses the first conversation of the map
\* instead of the current one.
OnSendMessage_first_conversation(st, msg) ==
    IF has_current_conversation(st)
    THEN LET first == IF "A" \in DOMAIN st.conversations
                      THEN "A"
                      ELSE CHOOSE c \in DOMAIN st.conversations : TRUE
             channel == st.conversations[first].data.channel
         IN  Outcome(st, <<send_message(channel, msg)>>)
    ELSE Outcome(st, <<>>)

\* Mutant of OnSendMessage: the current conversation is unwrapped
\* (expect("No current conversation")).
OnSendMessage_expects_current(st, msg) ==
    IF has_current_conversation(st)
    THEN LET convo == st.conversations[st.current_conversation]
             channel == convo.data.channel
         IN  Outcome(st, <<send_message(channel, msg)>>)
    ELSE [st |-> st, calls |-> <<>>, panic |-> TRUE]

\* UiMessage::SendMessage(msg)
OnSendMessage(st, msg) ==
    IF has_current_conversation(st)
    THEN LET convo == st.conversations[st.current_conversation]
             channel == convo.data.channel
         IN  Outcome(st, <<send_message(channel, msg)>>)
    ELSE Outcome(st, <<>>)

\* Mutant of OnSwitchConversation: moves the current pointer before looking
\* the conversation up.
OnSwitchConversation_unchecked(st, conversation_id) ==
    IF conversation_id \in DOMAIN st.conversations
    THEN LET convo == st.conversations[conversation_id]
             calls == IF ~convo.fetched
                      THEN <<fetch_messages(convo.data, FetchCount)>>
                      ELSE <<>>
         IN  Outcome(set_current_conversation(st, conversation_id), calls)
    ELSE Outcome([st EXCEPT !.current_conversation = conversation_id], <<>>)

\* UiMessage::SwitchConversation(conversation_id)
OnSwitchConversation(st, conversation_id) ==
    IF conversation_id \in DOMAIN st.conversations
    THEN LET convo == st.conversations[conversation_id]
             calls == IF ~convo.fetched
                      THEN <<fetch_messages(convo.data, FetchCount)>>
                      ELSE <<>>
         IN  Outcome(set_current_conversation(st, conversation_id), calls)
    ELSE Outcome(st, <<>>)

\* The effect of one arm on the state, the client and the records of the step.
Commit(arm, msg, out) ==
    /\ current_conversation' = out.st.current_conversation
    /\ conversations' = out.st.conversations
    /\ fired' = out.st.fired
    /\ issued' = out.calls
    /\ in_flight' = in_flight \o out.calls
    /\ panicked' = out.panic
    /\ last' = [arm |-> arm, msg |-> msg]
    /\ UNCHANGED clientVars

\* recv(self.client_receiver) is ready with a message of the given type
ClientReady(type) ==
    /\ started
    /\ ~panicked
    /\ client_receiver # <<>>
    /\ Head(client_receiver).type = type

\* recv(self.ui_receiver) is ready with a message of the given type
UiReady(type) ==
    /\ started
    /\ ~panicked
    /\ ui_receiver # <<>>
    /\ Head(ui_receiver).type = type

RecvConversationList ==
    /\ ClientReady("ConversationList")
    /\ LET msg == Head(client_receiver)
       IN  Commit("client", msg, OnConversationList(StateNow, msg.conversations))
    /\ client_receiver' = Tail(client_receiver)
    /\ UNCHANGED <<observers, ui_receiver, stdout, history, backend_list,
                   started, fetch_calls, placed, processed>>

RecvMessageList ==
    /\ ClientReady("MessageList")
    /\ LET msg == Head(client_receiver)
       IN  Commit("client", msg, OnMessageList(StateNow, msg.messages))
    /\ client_receiver' = Tail(client_receiver)
    /\ UNCHANGED <<observers, ui_receiver, stdout, history, backend_list,
                   started, fetch_calls, placed, processed>>

\* ClientMessage::ApiResponse(ApiResponse::MessageSent{..}) => {}
RecvMessageSent ==
    /\ ClientReady("MessageSent")
    /\ Commit("client", Head(client_receiver), Outcome(StateNow, <<>>))
    /\ client_receiver' = Tail(client_receiver)
    /\ UNCHANGED <<observers, ui_receiver, stdout, history, backend_list,
                   started, fetch_calls, placed, processed>>

RecvChatMessage ==
    /\ ClientReady("ChatMessage")
    /\ LET msg == Head(client_receiver)
       IN  /\ Commit("client", msg, OnChatMessage(StateNow, msg.msg))
           /\ processed' = Append(processed, msg.msg.msg)
    /\ client_receiver' = Tail(client_receiver)
    /\ UNCHANGED <<observers, ui_receiver, stdout, history, backend_list,
                   started, fetch_calls, placed>>

RecvSendMessage ==
    /\ UiReady("SendMessage")
    /\ LET msg == Head(ui_receiver)
       IN  Commit("ui", msg, OnSendMessage(StateNow, msg.text))
    /\ ui_receiver' = Tail(ui_receiver)
    /\ UNCHANGED <<observers, client_receiver, stdout, history, backend_list,
                   started, fetch_calls, placed, processed>>

RecvSwitchConversation ==
    /\ UiReady("SwitchConversation")
    /\ LET msg == Head(ui_receiver)
           out == OnSwitchConversation(StateNow, msg.conversation_id)
       IN  /\ Commit("ui", msg, out)
           /\ fetch_calls' =
                IF msg.conversation_id \in ConvIds
                THEN [fetch_calls EXCEPT ![msg.conversation_id] = @ + Len(out.calls)]
                ELSE fetch_calls
    /\ ui_receiver' = Tail(ui_receiver)
    /\ UNCHANGED <<observers, client_receiver, stdout, history, backend_list,
                   started, placed, processed>>

\* default => {}: neither channel has a message
RecvDefault ==
    /\ started
    /\ ~panicked
    /\ client_receiver = <<>>
    /\ ui_receiver = <<>>
    /\ last.arm # "default"
    /\ Commit("default", [type |-> "none"], Outcome(StateNow, <<>>))
    /\ UNCHANGED <<observers, client_receiver, ui_receiver, stdout, history,
                   backend_list, started, fetch_calls, placed, processed>>

Next ==
    \/ Start
    \/ \E m \in UiMessages : UiPlace(m)
    \/ \E c \in ConvIds : BackendEmit(c)
    \/ \E i \in 1..Len(in_flight) : GatewayComplete(i)
    \/ ReaderTask
    \/ RecvConversationList
    \/ RecvMessageList
    \/ RecvMessageSent
    \/ RecvChatMessage
    \/ RecvSendMessage
    \/ RecvSwitchConversation
    \/ RecvDefault

Spec == Init /\ [][Next]_vars

\* ------------------------------------------------------- step recognisers
\* The step takes a message of the given type off the client channel.
TakesClient(type) ==
    /\ ClientReady(type)
    /\ client_receiver' = Tail(client_receiver)

\* The step takes a message of the given type off the UI channel.
TakesUi(type) ==
    /\ UiReady(type)
    /\ ui_receiver' = Tail(ui_receiver)

\* Newest first: emission times never increase along the sequence.
NewestFirst(messages) ==
    \A i \in 1..Len(messages) : \A j \in 1..Len(messages) :
        i < j => messages[i].ts >= messages[j].ts

\* ------------------------------------------------------------------ C1
\* C1: switching issues at most one fetch_messages call per conversation
\* over a run: the first SwitchConversation(C) issues one, every later
\* SwitchConversation(C) issues none.
C1_AtMostOneFetchPerConversation ==
    \A c \in ConvIds : fetch_calls[c] <= 1

C3_MessagesNewestFirst ==
    \A c \in DOMAIN conversations : NewestFirst(conversations[c].messages)

\* ------------------------------------------------------------------ C4
\* The last Controller step processed a non-empty ConversationList.
LastWasConversationList ==
    /\ last.arm = "client"
    /\ last.msg.type = "ConversationList"
    /\ last.msg.conversations # <<>>

LastWasSwitch ==
    /\ last.arm = "ui"
    /\ last.msg.type = "SwitchConversation"

IssuedARead == \E i \in 1..Len(issued) : issued[i].method = "read"

\* C4 (as claimed): a non-empty conversation list is loaded whole, its first
\* entry becomes current, and no fetch_messages call is issued by any step
\* other than the processing of a SwitchConversation.
C4_NoFetchBeforeSwitch ==
    /\ LastWasConversationList =>
        LET list == last.msg.conversations
        IN  /\ \A i \in 1..Len(list) :
                 /\ list[i].id \in DOMAIN conversations
                 /\ conversations[list[i].id].data = list[i]
            /\ current_conversation = list[1].id
    /\ IssuedARead => LastWasSwitch

\* C4 (amended): a non-empty conversation list is loaded whole, its first
\* entry c0 becomes current and exactly one call fetch_messages(c0, 20) is
\* issued by that step; every other fetch_messages call is issued by the
\* processing of a SwitchConversation.
C4_InitFetchesOnlyFirst ==
    /\ LastWasConversationList =>
        LET list == last.msg.conversations
        IN  /\ \A i \in 1..Len(list) :
                 /\ list[i].id \in DOMAIN conversations
                 /\ conversations[list[i].id].data = list[i]
            /\ current_conversation = list[1].id
            /\ issued = <<[method |-> "read", channel |-> list[1].channel,
                           num |-> 20]>>
    /\ IssuedARead => (LastWasSwitch \/ LastWasConversationList)

C4_Witness ==
    /\ LastWasConversationList
    /\ Len(last.msg.conversations) = 2
    /\ current_conversation = last.msg.conversations[1].id
    /\ Len(issued) = 1
    /\ placed = 0

\* ------------------------------------------------------------------ C5
\* C5: processing SwitchConversation(id) for an id present in state ends
\* with current = id and with on_conversation_change fired exactly once on
\* every registered observer, for that conversation, and nothing else fired.
C5_SwitchSetsCurrentAndNotifies ==
    [][\A id \in ConvIds \cup {UnknownId} :
        (/\ TakesUi("SwitchConversation")
         /\ Head(ui_receiver).conversation_id = id
         /\ id \in DOMAIN conversations)
        => /\ current_conversation' = id
           /\ \A i \in 1..Len(fired') :
                /\ fired'[i].method = "on_conversation_change"
                /\ fired'[i].args[1].id = id
           /\ \A k \in 1..Len(observers) :
                Cardinality({i \in 1..Len(fired') :
                                fired'[i].observer = observers[k]}) = 1]_vars

C5_Witness ==
    /\ LastWasSwitch
    /\ last.msg.conversation_id \in DOMAIN conversations
    /\ current_conversation = last.msg.conversation_id
    /\ Len(fired) = Len(observers)
    /\ backend_list # <<>>
    /\ backend_list[1].id # current_conversation

\* ------------------------------------------------------------------ C6
\* C6: processing SwitchConversation(id) for an id that is not in state
\* changes neither the conversation map (flags and messages included) nor
\* the current pointer, issues no call and fires no observer.
C6_SwitchToAbsentIsNoOp ==
    [][\A id \in ConvIds \cup {UnknownId} :
        (/\ TakesUi("SwitchConversation")
         /\ Head(ui_receiver).conversation_id = id
         /\ id \notin DOMAIN conversations)
        => /\ conversations' = conversations
           /\ current_conversation' = current_conversation
           /\ in_flight' = in_flight
           /\ issued' = <<>>
           /\ fired' = <<>>]_vars

C6_Witness ==
    /\ LastWasSwitch
    /\ last.msg.conversation_id \notin DOMAIN conversations
    /\ DOMAIN conversations # {}
    /\ current_conversation \in DOMAIN conversations
    /\ issued = <<>>

\* ------------------------------------------------------------------ C7
\* The Controller loop calls step() again and again and select! picks at
\* random among the ready arms, so an arm that stays ready is eventually
\* taken; the reader task and the gateway subprocesses run on their own.
UiArm == RecvSendMessage \/ RecvSwitchConversation

ClientArm ==
    RecvConversationList \/ RecvMessageList \/ RecvMessageSent \/ RecvChatMessage

LiveSpec ==
    /\ Spec
    /\ WF_vars(UiArm)
    /\ WF_vars(ClientArm)
    /\ WF_vars(ReaderTask)
    /\ WF_vars(\E i \in 1..Len(in_flight) : GatewayComplete(i))

\* C7: every command placed on the UI channel is eventually taken off it by
\* the Controller: the n-th command placed is eventually the n-th taken.
C7_EveryCommandProcessed ==
    \A n \in 1..MaxUiCommands :
        (placed >= n) ~> (placed - Len(ui_receiver) >= n)

\* ------------------------------------------------------------------ C8
\* The chat messages of the ChatMessage events waiting on the client channel,
\* in channel order.
RECURSIVE PendingEvents(_)
PendingEvents(channel) ==
    IF channel = <<>> THEN <<>>
    ELSE IF Head(channel).type = "ChatMessage"
         THEN <<Head(channel).msg.msg>> \o PendingEvents(Tail(channel))
         ELSE PendingEvents(Tail(channel))

UnreadLines == [i \in 1..Len(stdout) |-> stdout[i].msg.msg]

\* C8: the events the Controller has processed, then the events waiting on
\* its channel, then the lines not yet read, are exactly the messages the
\* listener subprocess emitted, in emission order: nothing is lost,
\* duplicated or reordered on the way.
C8_ListenerEventsInOrder ==
    processed \o PendingEvents(client_receiver) \o UnreadLines = history

\* Two events were processed in emission order while a gateway answer
\* travelled on the same channel.
C8_Witness ==
    /\ Len(processed) = 2
    /\ processed[1].ts = 1
    /\ processed[2].ts = 2
    /\ \E i \in 1..Len(client_receiver) : client_receiver[i].type = "MessageList"

\* ------------------------------------------------------------------ C9
\* C9: processing a ChatMessage whose conversation exists in state puts the
\* message at the head of that conversation's messages, whether or not the
\* conversation is the current one, and leaves the current pointer alone.
C9_ChatMessageInsertedAtHead ==
    [][\A c \in ConvIds :
        (/\ TakesClient("ChatMessage")
         /\ Head(client_receiver).msg.msg.conversation_id = c
         /\ c \in DOMAIN conversations)
        => /\ conversations'[c].messages =
                <<Head(client_receiver).msg.msg>> \o conversations[c].messages
           /\ current_conversation' = current_conversation]_vars

\* A message for a conversation that is not the current one has just been
\* put ahead of an older message of that conversation.
C9_Witness ==
    /\ last.arm = "client"
    /\ last.msg.type = "ChatMessage"
    /\ LET c == last.msg.msg.msg.conversation_id
       IN  /\ c \in DOMAIN conversations
           /\ current_conversation \in DOMAIN conversations
           /\ current_conversation # c
           /\ Len(conversations[c].messages) = 2
           /\ conversations[c].messages[1] = last.msg.msg.msg

\* ----------------------------------------------------------------- C10
\* C10: processing SendMessage(text) while a current conversation is set
\* issues exactly one send call, to the channel of the conversation that is
\* current at that moment and with body text, and changes nothing in
\* Application State.
C10_SendGoesToCurrentChannel ==
    [][(/\ TakesUi("SendMessage")
        /\ current_conversation \in DOMAIN conversations)
       => /\ issued' = <<[method |-> "send",
                          channel |-> conversations[current_conversation].data.channel,
                          body |-> Head(ui_receiver).text]>>
          /\ in_flight' = in_flight \o issued'
          /\ conversations' = conversations
          /\ current_conversation' = current_conversation
          /\ fired' = <<>>]_vars

\* A send was issued after a switch away from the first listed conversation.
C10_Witness ==
    /\ last.arm = "ui"
    /\ last.msg.type = "SendMessage"
    /\ Len(issued) = 1
    /\ issued[1].method = "send"
    /\ current_conversation \in DOMAIN conversations
    /\ issued[1].channel = conversations[current_conversation].data.channel
    /\ current_conversation # backend_list[1].id

\* ------------------------------------------------ Application State alone
\* The ApplicationState trait driven call by call, as the unit tests of
\* state.rs drive it: any sequence of insert_conversation, set_conversations,
\* insert_message and set_current_conversation on a default state with the
\* observers registered.

\* Conversation is a pub struct with pub fields: a caller may hand over any
\* value of it.
ConversationInputs ==
    {[From(KeybaseConversation(id)) EXCEPT !.fetched = f] :
        id \in ConvIds, f \in BOOLEAN}

ConversationInputLists ==
    {<<>>}
    \cup {<<c>> : c \in ConversationInputs}
    \cup {<<c, d>> : c \in ConversationInputs, d \in ConversationInputs}

MessageInputs(conversation_id) ==
    {[conversation_id |-> conversation_id, ts |-> t] : t \in 1..MaxStamp}

StateInit ==
    /\ current_conversation = None
    /\ conversations = [k \in {} |-> None]
    /\ observers = <<"o1", "o2">>
    /\ client_receiver = <<>>
    /\ ui_receiver = <<>>
    /\ panicked = FALSE
    /\ in_flight = <<>>
    /\ stdout = <<>>
    /\ history = <<>>
    /\ backend_list = <<>>
    /\ started = FALSE
    /\ last = [arm |-> "none", msg |-> [type |-> "none"]]
    /\ issued = <<>>
    /\ fired = <<>>
    /\ fetch_calls = [c \in ConvIds |-> 0]
    /\ placed = 0
    /\ processed = <<>>
    /\ ClientNew

\* One call of the trait: the state it leaves and the observer calls it made.
ApiCall(call, st) ==
    /\ current_conversation' = st.current_conversation
    /\ conversations' = st.conversations
    /\ fired' = st.fired
    /\ last' = [arm |-> "api", msg |-> call]
    /\ UNCHANGED <<observers, client_receiver, ui_receiver, panicked,
                   in_flight, stdout, history, backend_list, started, issued,
                   fetch_calls, placed, processed>>
    /\ UNCHANGED clientVars

ApiInsertConversation(conversation) ==
    ApiCall([type |-> "insert_conversation", conversation |-> conversation],
            insert_conversation(StateNow, conversation))

ApiSetConversations(list) ==
    ApiCall([type |-> "set_conversations", list |-> list],
            set_conversations(StateNow, list))

ApiInsertMessage(conversation_id, message) ==
    /\ conversation_id \in DOMAIN conversations =>
            Len(conversations[conversation_id].messages) < MaxStored
    /\ ApiCall([type |-> "insert_message", conversation_id |-> conversation_id,
                message |-> message],
               insert_message(StateNow, conversation_id, message))

ApiSetCurrentConversation(conversation_id) ==
    ApiCall([type |-> "set_current_conversation",
             conversation_id |-> conversation_id],
            set_current_conversation(StateNow, conversation_id))

\* Mutant of ApiGetConversation: a lookup that misses leaves an empty
\* conversation under the id (HashMap entry().or_insert_with()).
ApiGetConversation_inserts_on_miss(conversation_id) ==
    LET made == [id |-> conversation_id, fetched |-> FALSE, messages |-> <<>>,
                 data |-> KeybaseConversation(conversation_id)]
        st == IF conversation_id \in DOMAIN conversations
              THEN StateNow
              ELSE insert_conversation(StateNow, made)
    IN  ApiCall([type |-> "get_conversation",
                 conversation_id |-> conversation_id,
                 result |-> get_conversation(st, conversation_id)], st)

\* The read accessors take &self: the call hands back what the lookup finds
\* and the state is the one it was called on.
ApiGetConversation(conversation_id) ==
    ApiCall([type |-> "get_conversation", conversation_id |-> conversation_id,
             result |-> get_conversation(StateNow, conversation_id)],
            StateNow)

ApiGetCurrentConversation ==
    ApiCall([type |-> "get_current_conversation",
             result |-> get_current_conversation(StateNow)],
            StateNow)

ApiGetConversations ==
    ApiCall([type |-> "get_conversations",
             result |-> get_conversations(StateNow)],
            StateNow)

StateNext ==
    \/ \E c \in ConversationInputs : ApiInsertConversation(c)
    \/ \E list \in ConversationInputLists : ApiSetConversations(list)
    \/ \E id \in ConvIds \cup {UnknownId} :
          \E m \in MessageInputs(id) : ApiInsertMessage(id, m)
    \/ \E id \in ConvIds \cup {UnknownId} : ApiSetCurrentConversation(id)
    \/ \E id \in ConvIds \cup {UnknownId} : ApiGetConversation(id)
    \/ ApiGetCurrentConversation
    \/ ApiGetConversations

StateSpec == StateInit /\ [][StateNext]_vars

\* The step is a call of the given method of the trait.
Calls(method) == last'.arm = "api" /\ last'.msg.type = method

LastCall(method) == last.arm = "api" /\ last.msg.type = method

\* ----------------------------------------------------------------- C11
\* C11: the current conversation id is absent or a key of the conversation
\* map, and get_current_conversation returns a conversation whenever the
\* pointer is set.
C11_CurrentResolves ==
    current_conversation # None =>
        /\ current_conversation \in DOMAIN conversations
        /\ has_current_conversation(StateNow)

\* The pointer is set and its conversation has just been inserted again.
C11_Witness ==
    /\ LastCall("set_conversations")
    /\ Len(last.msg.list) = 2
    /\ current_conversation # None
    /\ \E i \in 1..2 : last.msg.list[i].id = current_conversation

C13_NothingDeleted ==
    [][\A k \in DOMAIN conversations :
        /\ k \in DOMAIN conversations'
        /\ \A i \in 1..Len(conversations[k].messages) :
             \E j \in 1..Len(conversations'[k].messages) :
                conversations'[k].messages[j] = conversations[k].messages[i]]_vars

\* ----------------------------------------------------------------- C14
\* C14: set_current_conversation(id) with an id that is not a key of the map
\* leaves the pointer and the map as they were and calls no observer.
C14_SetCurrentUnknownIsNoOp ==
    [][(/\ Calls("set_current_conversation")
        /\ last'.msg.conversation_id \notin DOMAIN conversations)
       => /\ current_conversation' = current_conversation
          /\ conversations' = conversations
          /\ fired' = <<>>]_vars

C14_Witness ==
    /\ LastCall("set_current_conversation")
    /\ last.msg.conversation_id \notin DOMAIN conversations
    /\ current_conversation \in DOMAIN conversations
    /\ fired = <<>>

\* ----------------------------------------------------------------- C15
\* C15: insert_message(conversation_id, message) with a conversation_id that
\* is not a key of the map creates no conversation, changes no message
\* sequence, leaves the pointer alone and calls no observer.
C15_InsertMessageUnknownIsNoOp ==
    [][(/\ Calls("insert_message")
        /\ last'.msg.conversation_id \notin DOMAIN conversations)
       => /\ conversations' = conversations
          /\ current_conversation' = current_conversation
          /\ fired' = <<>>]_vars

C15_Witness ==
    /\ LastCall("insert_message")
    /\ last.msg.conversation_id \notin DOMAIN conversations
    /\ DOMAIN conversations # {}
    /\ current_conversation \in DOMAIN conversations
    /\ fired = <<>>

\* ----------------------------------------------------------------- C16
\* C16: set_conversations(list) calls on_conversations_added exactly once on
\* every registered observer with an argument equal to list, calls no other
\* observer method and leaves the current pointer unchanged.
C16_SetConversationsNotifiesOnce ==
    [][Calls("set_conversations")
       => /\ \A i \in 1..Len(fired') :
               /\ fired'[i].method = "on_conversations_added"
               /\ fired'[i].args = <<last'.msg.list>>
          /\ \A k \in 1..Len(observers) :
               Cardinality({i \in 1..Len(fired') :
                               fired'[i].observer = observers[k]}) = 1
          /\ current_conversation' = current_conversation]_vars

C16_Witness ==
    /\ LastCall("set_conversations")
    /\ Len(last.msg.list) = 2
    /\ Len(fired) = Len(observers)
    /\ fired[1].args[1] = last.msg.list
    /\ current_conversation # None

\* ----------------------------------------------------------------- C17
\* C17: insert_message(C, m) with C in state calls on_message(m, C, active)
\* exactly once on every registered observer, with active true exactly when
\* C is the current conversation id at the time of the call.
C17_OnMessageActiveFlag ==
    [][(/\ Calls("insert_message")
        /\ last'.msg.conversation_id \in DOMAIN conversations)
       => /\ \A i \in 1..Len(fired') :
               /\ fired'[i].method = "on_message"
               /\ fired'[i].args = <<last'.msg.message,
                                     last'.msg.conversation_id,
                                     last'.msg.conversation_id = current_conversation>>
          /\ \A k \in 1..Len(observers) :
               Cardinality({i \in 1..Len(fired') :
                               fired'[i].observer = observers[k]}) = 1]_vars

\* A message went into a conversation that is not the current one, while
\* the current one holds a message of its own.
C17_Witness ==
    /\ LastCall("insert_message")
    /\ last.msg.conversation_id \in DOMAIN conversations
    /\ current_conversation \in DOMAIN conversations
    /\ current_conversation # last.msg.conversation_id
    /\ conversations[current_conversation].messages # <<>>
    /\ Len(fired) = Len(observers)
    /\ fired[1].args[3] = FALSE

\* ----------------------------------------------------------------- C18
\* C18: each insert_message into an existing conversation C prepends and
\* leaves every other conversation alone, so insert_message(C, m1) followed
\* by insert_message(C, m2) leaves C with [m2, m1] followed by what C held.
C18_InsertMessagePrepends ==
    [][(/\ Calls("insert_message")
        /\ last'.msg.conversation_id \in DOMAIN conversations)
       => LET C == last'.msg.conversation_id
              S == conversations[C].messages
          IN  /\ conversations'[C].messages = <<last'.msg.message>> \o S
              /\ \A k \in DOMAIN conversations \ {C} :
                    conversations'[k] = conversations[k]
              /\ (LastCall("insert_message") /\ last.msg.conversation_id = C)
                    => /\ S # <<>>
                       /\ conversations'[C].messages =
                            <<last'.msg.message, last.msg.message>> \o Tail(S)]_vars

\* Two different messages went one after the other into a conversation that
\* already held one.
C18_Witness ==
    /\ LastCall("insert_message")
    /\ last.msg.conversation_id \in DOMAIN conversations
    /\ LET S == conversations[last.msg.conversation_id].messages
       IN  /\ Len(S) = 3
           /\ S[1] = last.msg.message
           /\ S[2] # S[1]
           /\ S[3] = S[1]

\* ----------------------------------------------------------------- C19
\* C19: after insert_conversation(c), get_conversation(c.id) and
\* get_conversation_mut(c.id) return a conversation whose id is c.id and
\* whose data is c's; every key of the map leads to a conversation with that
\* id; and an insertion of conversations with other ids changes no entry
\* already stored.
C19_InsertedConversationIsFound ==
    [][/\ Calls("insert_conversation") =>
            LET c == last'.msg.conversation
            IN  /\ get_conversation(StateNow', c.id) # <<>>
                /\ get_conversation(StateNow', c.id)[1].id = c.id
                /\ get_conversation(StateNow', c.id)[1].data = c.data
                /\ get_conversation_mut(StateNow', c.id) # <<>>
                /\ get_conversation_mut(StateNow', c.id)[1].id = c.id
                /\ get_conversation_mut(StateNow', c.id)[1].data = c.data
                /\ \A k \in DOMAIN conversations \ {c.id} :
                      get_conversation(StateNow', k) = get_conversation(StateNow, k)
       /\ Calls("set_conversations") =>
            \A k \in DOMAIN conversations :
                (\A i \in 1..Len(last'.msg.list) : last'.msg.list[i].id # k)
                => get_conversation(StateNow', k) = get_conversation(StateNow, k)
       /\ \A k \in DOMAIN conversations' :
            get_conversation(StateNow', k)[1].id = k]_vars

\* A conversation was inserted next to another one that holds a message.
C19_Witness ==
    /\ LastCall("insert_conversation")
    /\ Cardinality(DOMAIN conversations) = 2
    /\ \E k \in DOMAIN conversations :
          /\ k # last.msg.conversation.id
          /\ conversations[k].messages # <<>>
    /\ conversations[last.msg.conversation.id] = last.msg.conversation

\* ----------------------------------------------------------------- C20
\* C20: after set_conversations(list), get_conversation(c.id) returns, for
\* every c of list, the last entry of list with that id; every conversation
\* whose id is not in list is unchanged; on an empty state get_conversations
\* yields only members of list.
C20_SetConversationsOverwritesById ==
    [][Calls("set_conversations")
       => LET list == last'.msg.list
              ids == {list[i].id : i \in 1..Len(list)}
              LastWith(id) ==
                  list[CHOOSE i \in 1..Len(list) :
                          /\ list[i].id = id
                          /\ \A j \in 1..Len(list) : list[j].id = id => j <= i]
          IN  /\ \A id \in ids :
                    get_conversation(StateNow', id) = <<LastWith(id)>>
              /\ DOMAIN conversations' = DOMAIN conversations \cup ids
              /\ \A k \in DOMAIN conversations \ ids :
                    conversations'[k] = conversations[k]
              /\ conversations = [k \in {} |-> None] =>
                    get_conversations(StateNow') \subseteq
                        {list[i] : i \in 1..Len(list)}]_vars

\* A list with two different entries under one id was stored next to a
\* conversation that holds a message.
C20_Witness ==
    /\ LastCall("set_conversations")
    /\ Len(last.msg.list) = 2
    /\ last.msg.list[1].id = last.msg.list[2].id
    /\ last.msg.list[1] # last.msg.list[2]
    /\ conversations[last.msg.list[2].id] = last.msg.list[2]
    /\ \E k \in DOMAIN conversations :
          /\ k # last.msg.list[2].id
          /\ conversations[k].messages # <<>>

\* --------------------------------------------------------------- client.rs
\* The tokio Client of client.rs driven call by call, as its unit tests drive
\* it with a mock executor: any sequence of fetch_conversations,
\* fetch_messages, send_message and get_receiver, each gateway call with any
\* outcome run_api_command can have, until the owner of the Client ends.
MaxCalls == 2

\* Channel values (types.rs 44-50); members_type is a MemberType.
Channels ==
    {[name |-> "chan", topic_name |-> t, members_type |-> m] :
        t \in {"", "general"}, m \in {"Team", "User"}}

ClientConversations == {[id |-> "A", channel |-> c, unread |-> FALSE] : c \in Channels}

\* #[serde(rename = ...)] of MemberType
MemberType_serialize(members_type) ==
    IF members_type = "Team" THEN "team" ELSE "impteamnative"

\* Mutant of Channel_serialize: an empty topic_name is left out
\* (skip_serializing_if = "String::is_empty").
Channel_serialize_skips_empty_topic(channel) ==
    IF channel.topic_name = ""
    THEN [name |-> channel.name,
          members_type |-> MemberType_serialize(channel.members_type)]
    ELSE [name |-> channel.name,
          topic_name |-> channel.topic_name,
          members_type |-> MemberType_serialize(channel.members_type)]

\* #[derive(Serialize)] of Channel: every field is written, serde(default)
\* only matters when reading.
Channel_serialize(channel) ==
    [name |-> channel.name,
     topic_name |-> channel.topic_name,
     members_type |-> MemberType_serialize(channel.members_type)]

\* json!({"method": "read", "params": {"options": {"channel": ..,
\*        "pagination": {"num": count}}}})
read_command(channel, count) ==
    [method |-> "read",
     params |-> [options |-> [channel |-> Channel_serialize(channel),
                              pagination |-> [num |-> count]]]]

\* json!({"method": "send", "params": {"options": {"channel": channel,
\*        "message": {"body": message.into()}}}})
send_command(channel, message) ==
    [method |-> "send",
     params |-> [options |-> [channel |-> Channel_serialize(channel),
                              message |-> [body |-> message]]]]

\* Result values: Ok(v), Ok(()) and Err(e); a panic unwinds instead.
Ok(value) == [kind |-> "Ok", value |-> value]
OkUnit == [kind |-> "Ok"]
Err(error) == [kind |-> "Err", error |-> error]
Panic == [kind |-> "Panic"]

\* run_api_command: Ok(parsed) with the JSON value the subprocess printed
Ran(json) == [kind |-> "Ok", json |-> json]

\* Wrapped messages a read may return, newest first.
WrappedLists ==
    {<<>>}
    \cup {<<[msg |-> m]>> : m \in MessageInputs("A")}
    \cup {<<[msg |-> m], [msg |-> n]>> :
            m \in MessageInputs("A"), n \in MessageInputs("A")}

\* JSON values the gateway subprocess may print.
GatewayValues ==
    {[null |-> TRUE]}
    \cup {[result |-> [conversations |-> l]] :
            l \in {<<>>, <<KeybaseConversation("A")>>}}
    \cup {[result |-> [messages |-> w, pagination |-> [num |-> Len(w)]]] :
            w \in WrappedLists}
    \cup {[result |-> [message |-> "message sent", id |-> 1]]}
    \cup {[result |-> [ratelimits |-> <<>>]]}
    \cup {[error |-> [code |-> 1, message |-> "bad command"]]}

\* What one run_api_command call may come to: the spawn or the write panics
\* (expect/unwrap), waiting or parsing the output fails (?), or a value.
ExecutorOutcomes ==
    {Panic, Err("io"), Err("json")} \cup {Ran(v) : v \in GatewayValues}

\* from_value::<ApiResponseWrapper>(value): the field result, read as the
\* first variant of the untagged ApiResponse whose fields are all there.
from_value(value) ==
    IF "result" \in DOMAIN value
    THEN LET result == value.result
         IN  IF "conversations" \in DOMAIN result
             THEN Ok([type |-> "ConversationList",
                      conversations |-> result.conversations])
             ELSE IF "messages" \in DOMAIN result
             THEN Ok([type |-> "MessageList", messages |-> result.messages])
             ELSE IF "message" \in DOMAIN result
             THEN Ok([type |-> "MessageSent", message |-> result.message])
             ELSE Err("json")
    ELSE Err("json")

\* A facade call: the commands it gave run_api_command and what it returned.
Called(commands, result) == [commands |-> commands, result |-> result]

\* Mutant of Client_fetch_conversations: a failed run is tried once more.
Client_fetch_conversations_retries(outcome) ==
    IF outcome.kind = "Err"
    THEN Called(<<fetch_conversations, fetch_conversations>>, outcome)
    ELSE IF outcome.kind = "Panic"
    THEN Called(<<fetch_conversations>>, outcome)
    ELSE LET parsed == from_value(outcome.json)
         IN  IF parsed.kind # "Ok"
             THEN Called(<<fetch_conversations>>, parsed)
             ELSE IF parsed.value.type = "ConversationList"
             THEN Called(<<fetch_conversations>>, Ok(parsed.value.conversations))
             ELSE Called(<<fetch_conversations>>, Ok(<<>>))

\* Client::fetch_conversations
Client_fetch_conversations(outcome) ==
    LET command == fetch_conversations
    IN  IF outcome.kind # "Ok"
        THEN Called(<<command>>, outcome)
        ELSE LET parsed == from_value(outcome.json)
             IN  IF parsed.kind # "Ok"
                 THEN Called(<<command>>, parsed)
                 ELSE IF parsed.value.type = "ConversationList"
                 THEN Called(<<command>>, Ok(parsed.value.conversations))
                 ELSE Called(<<command>>, Ok(<<>>))

\* Mutant of Client_fetch_messages: an answer of another shape is an error.
Client_fetch_messages_err_on_mismatch(conversation, count, outcome) ==
    LET command == read_command(conversation.channel, count)
    IN  IF outcome.kind # "Ok"
        THEN Called(<<command>>, outcome)
        ELSE LET parsed == from_value(outcome.json)
             IN  IF parsed.kind # "Ok"
                 THEN Called(<<command>>, parsed)
                 ELSE IF parsed.value.type = "MessageList"
                 THEN Called(<<command>>,
                             Ok([i \in 1..Len(parsed.value.messages) |->
                                    parsed.value.messages[i].msg]))
                 ELSE Called(<<command>>, Err("shape"))

\* Client::fetch_messages
Client_fetch_messages(conversation, count, outcome) ==
    LET command == read_command(conversation.channel, count)
    IN  IF outcome.kind # "Ok"
        THEN Called(<<command>>, outcome)
        ELSE LET parsed == from_value(outcome.json)
             IN  IF parsed.kind # "Ok"
                 THEN Called(<<command>>, parsed)
                 ELSE IF parsed.value.type = "MessageList"
                 THEN Called(<<command>>,
                             Ok([i \in 1..Len(parsed.value.messages) |->
                                    parsed.value.messages[i].msg]))
                 ELSE Called(<<command>>, Ok(<<>>))

\* Client::send_message
Client_send_message(channel, message, outcome) ==
    LET command == send_command(channel, message)
    IN  IF outcome.kind # "Ok"
        THEN Called(<<command>>, outcome)
        ELSE Called(<<command>>, OkUnit)

\* Mutant of Client_get_receiver: the receiver is handed out and kept.
Client_get_receiver_keeps(c) ==
    IF c.receiver = "Some"
    THEN [client |-> c, handed |-> 1, panic |-> FALSE]
    ELSE [client |-> c, handed |-> 0, panic |-> TRUE]

\* Client::get_receiver: self.receiver.take().unwrap()
Client_get_receiver(c) ==
    IF c.receiver = "Some"
    THEN [client |-> [c EXCEPT !.receiver = "None"], handed |-> 1, panic |-> FALSE]
    ELSE [client |-> c, handed |-> 0, panic |-> TRUE]

\* Mutant of Client_drop: the Child is taken and dropped without kill().
Client_drop_without_kill(c, process) ==
    [client |-> [c EXCEPT !.listener = "None"], child |-> process]

\* impl Drop for Client: if let Some(mut c) = self.listener.take()
\* { c.kill().unwrap() }; kill() of a process that is gone is an error.
Client_drop(c, process) ==
    IF c.listener = "Some"
    THEN [client |-> [c EXCEPT !.listener = "None"],
          child |-> IF process = "running" THEN "killed" ELSE process]
    ELSE [client |-> c, child |-> process]

\* The variables of the Controller and of Application State, which the
\* Client leaves alone.
controllerVars ==
    <<current_conversation, conversations, observers, client_receiver,
      ui_receiver, panicked, in_flight, stdout, history, backend_list,
      started, issued, fired, fetch_calls, placed, processed>>

\* The owner of the Client ends, by returning or by unwinding from a panic:
\* the Client is dropped either way.
OwnerEnds(status) ==
    LET dropped == Client_drop(client, child)
    IN  /\ session' = status
        /\ client' = dropped.client
        /\ child' = dropped.child

\* One call of fetch_conversations, fetch_messages or send_message.
FacadeCall(call, outcome, called) ==
    /\ session = "running"
    /\ facade_calls < MaxCalls
    /\ facade_calls' = facade_calls + 1
    /\ executor' = executor \o called.commands
    /\ last' = [arm |-> "facade",
                msg |-> [call EXCEPT !.outcome = outcome,
                                     !.result = called.result]]
    /\ IF called.result.kind = "Panic"
       THEN OwnerEnds("panicked")
       ELSE UNCHANGED <<session, client, child>>
    /\ UNCHANGED <<reader, handles>>
    /\ UNCHANGED controllerVars

ClientFetchConversations(outcome) ==
    FacadeCall([type |-> "fetch_conversations", outcome |-> Panic,
                result |-> Panic],
               outcome, Client_fetch_conversations(outcome))

ClientFetchMessages(conversation, count, outcome) ==
    FacadeCall([type |-> "fetch_messages", conversation |-> conversation,
                count |-> count, outcome |-> Panic, result |-> Panic],
               outcome, Client_fetch_messages(conversation, count, outcome))

ClientSendMessage(channel, message, outcome) ==
    FacadeCall([type |-> "send_message", channel |-> channel,
                message |-> message, outcome |-> Panic, result |-> Panic],
               outcome, Client_send_message(channel, message, outcome))

ClientGetReceiver ==
    /\ session = "running"
    /\ LET got == Client_get_receiver(client)
       IN  /\ handles' = handles + got.handed
           /\ last' = [arm |-> "facade",
                       msg |-> [type |-> "get_receiver", panic |-> got.panic]]
           /\ IF got.panic
              THEN LET dropped == Client_drop(got.client, child)
                   IN  /\ session' = "panicked"
                       /\ client' = dropped.client
                       /\ child' = dropped.child
              ELSE /\ client' = got.client
                   /\ UNCHANGED <<session, child>>
    /\ UNCHANGED <<reader, executor, facade_calls>>
    /\ UNCHANGED controllerVars

\* The reader task panics on one of its unwraps (a line that is not JSON or
\* not a ListenerEvent, a read error, a closed channel): the task is gone,
\* the runtime goes on.
ReaderTaskPanics ==
    /\ session = "running"
    /\ reader = "running"
    /\ child = "running"
    /\ reader' = "panicked"
    /\ UNCHANGED <<client, child, executor, handles, session, facade_calls, last>>
    /\ UNCHANGED controllerVars

\* The listener subprocess exits by itself; next_line() gives None and the
\* reader loop ends.
ListenerExits ==
    /\ session = "running"
    /\ child = "running"
    /\ stdout = <<>>
    /\ child' = "exited"
    /\ reader' = IF reader = "running" THEN "done" ELSE reader
    /\ UNCHANGED <<client, executor, handles, session, facade_calls, last>>
    /\ UNCHANGED controllerVars

\* The owner of the Client returns: the Client goes out of scope.
OwnerReturns ==
    /\ session = "running"
    /\ OwnerEnds("ended")
    /\ UNCHANGED <<reader, executor, handles, facade_calls, last>>
    /\ UNCHANGED controllerVars

\* The owner of the Client panics in code of its own (for the Controller:
\* conversations[0] on an empty list) and unwinds.
OwnerPanics ==
    /\ session = "running"
    /\ OwnerEnds("panicked")
    /\ UNCHANGED <<reader, executor, handles, facade_calls, last>>
    /\ UNCHANGED controllerVars

ClientNext ==
    \/ \E outcome \in ExecutorOutcomes : ClientFetchConversations(outcome)
    \/ \E conversation \in ClientConversations : \E outcome \in ExecutorOutcomes :
          ClientFetchMessages(conversation, FetchCount, outcome)
    \/ \E channel \in Channels : \E message \in Texts :
          \E outcome \in ExecutorOutcomes :
             ClientSendMessage(channel, message, outcome)
    \/ ClientGetReceiver
    \/ ReaderTaskPanics
    \/ ListenerExits
    \/ OwnerReturns
    \/ OwnerPanics

ClientSpec == StateInit /\ [][ClientNext]_vars

\* The last step was a call of the given method of the Client.
LastFacade(method) == last.arm = "facade" /\ last.msg.type = method

\* ----------------------------------------------------------------- C21
\* C21: no step changes the conversation map, a message sequence, a fetched
\* flag or the current pointer without calling an observer method during
\* that same step.
C21_EveryMutationNotifies ==
    [][(\/ conversations' # conversations
        \/ current_conversation' # current_conversation)
       => fired' # <<>>]_vars

\* ----------------------------------------------------------------- C22
\* The step is a call of one of the read accessors.
CallsAccessor ==
    \/ Calls("get_conversation")
    \/ Calls("get_current_conversation")
    \/ Calls("get_conversations")

\* C22: get_conversation, get_current_conversation and get_conversations
\* leave the conversation map (messages and fetched flags included), the
\* current pointer and the observer list as they were and call no observer
\* method, for every argument, unknown ids included.
C22_AccessorsChangeNothing ==
    [][CallsAccessor
       => /\ conversations' = conversations
          /\ current_conversation' = current_conversation
          /\ observers' = observers
          /\ fired' = <<>>]_vars

\* get_conversation missed on an unknown id while the state holds a
\* conversation with a message and a current pointer.
C22_Witness ==
    /\ LastCall("get_conversation")
    /\ last.msg.conversation_id \notin DOMAIN conversations
    /\ last.msg.result = <<>>
    /\ current_conversation \in DOMAIN conversations
    /\ conversations[current_conversation].messages # <<>>
    /\ fired = <<>>

\* ----------------------------------------------------------------- C23
\* The JSON value is a well-formed answer of the given ApiResponse variant.
IsConversationList(json) ==
    "result" \in DOMAIN json /\ "conversations" \in DOMAIN json.result

IsMessageList(json) ==
    /\ "result" \in DOMAIN json
    /\ "messages" \in DOMAIN json.result
    /\ "conversations" \notin DOMAIN json.result

IsMessageSent(json) ==
    /\ "result" \in DOMAIN json
    /\ "message" \in DOMAIN json.result
    /\ "conversations" \notin DOMAIN json.result
    /\ "messages" \notin DOMAIN json.result

C24_OneSubmissionPerCall ==
    Len(executor) = facade_calls

\* A call that failed and a call that succeeded: two commands.
C24_Witness ==
    /\ facade_calls = 2
    /\ Len(executor) = 2
    /\ executor[1].method = "list"
    /\ LastFacade("send_message")
    /\ last.msg.result = OkUnit

\* ----------------------------------------------------------------- C25
\* The channel of the spec's example: name "chan", no topic, a team.
ExampleChannel == [name |-> "chan", topic_name |-> "", members_type |-> "Team"]

\* The command of the last send_message call.
SentCommand == executor[Len(executor)]

\* C25 (as claimed): the command send_message(channel, body) submits has
\* method "send", the given channel and the given body; for the channel
\* {name: "chan", members_type: team} the channel object has exactly the
\* fields name and members_type.
C25_SendCommandOmitsTopic ==
    LastFacade("send_message")
    => /\ SentCommand.method = "send"
       /\ SentCommand.params.options.message = [body |-> last.msg.message]
       /\ SentCommand.params.options.channel.name = last.msg.channel.name
       /\ last.msg.channel = ExampleChannel
            => SentCommand.params.options.channel =
                    [name |-> "chan", members_type |-> "team"]

\* C25 (amended): the command send_message(channel, body) submits has
\* method "send", the given body, and a channel object with exactly the
\* three fields name, topic_name and members_type of the given channel; for
\* the channel {name: "chan", members_type: team} topic_name is "".
C25_SendCommandCarriesChannel ==
    LastFacade("send_message")
    => /\ DOMAIN SentCommand = {"method", "params"}
       /\ SentCommand.method = "send"
       /\ DOMAIN SentCommand.params = {"options"}
       /\ DOMAIN SentCommand.params.options = {"channel", "message"}
       /\ SentCommand.params.options.message = [body |-> last.msg.message]
       /\ DOMAIN SentCommand.params.options.channel =
            {"name", "topic_name", "members_type"}
       /\ SentCommand.params.options.channel.name = last.msg.channel.name
       /\ SentCommand.params.options.channel.topic_name =
            last.msg.channel.topic_name
       /\ SentCommand.params.options.channel.members_type =
            (IF last.msg.channel.members_type = "Team"
             THEN "team" ELSE "impteamnative")
       /\ last.msg.channel = ExampleChannel
            => SentCommand.params.options.channel =
                    [name |-> "chan", topic_name |-> "", members_type |-> "team"]

\* The example of the spec: "hi" was sent to the team channel "chan".
C25_Witness ==
    /\ LastFacade("send_message")
    /\ last.msg.channel = ExampleChannel
    /\ last.msg.message = "hi"
    /\ last.msg.result = OkUnit

\* ----------------------------------------------------------------- C26
\* C26: a Client hands out its Receiver at most once: a get_receiver call
\* after the first returns no second handle.
C26_AtMostOneReceiver ==
    handles <= 1

\* get_receiver was called a second time: it panicked and one handle is out.
C26_Witness ==
    /\ LastFacade("get_receiver")
    /\ last.msg.panic
    /\ handles = 1
    /\ client.receiver = "None"

\* ----------------------------------------------------------------- C27
\* C27: whenever the owner of the Client has ended, by returning or by a
\* panic in a gateway call, in get_receiver or in its own code, and whether
\* or not the reader task has failed before, the listener subprocess is not
\* running any more.
C27_ListenerKilledOnEveryExit ==
    session # "running" => child # "running"

\* A gateway call panicked after the reader task had failed, and the
\* listener was killed.
C27_Witness ==
    /\ session = "panicked"
    /\ reader = "panicked"
    /\ child = "killed"
    /\ last.arm = "facade"
    /\ last.msg.type = "fetch_messages"
    /\ last.msg.result = Panic

\* ----------------------------------------------------------------- C28
\* The renderer of main.rs: the mouse callback of conversation_view runs on
\* the UI side, takes the state it shares through the Cursive user data and
\* writes it: state.client.fetch_messages(&convo, 20);
\* state.data.current_conversation = Some(convo.id). A view exists for every
\* conversation that was rendered.
ConversationViewClick(conversation_id) ==
    /\ started
    /\ ~panicked
    /\ placed < MaxUiCommands
    /\ conversation_id \in DOMAIN conversations
    /\ in_flight' = Append(in_flight,
                           fetch_messages(conversations[conversation_id].data,
                                          FetchCount))
    /\ current_conversation' = conversation_id
    /\ placed' = placed + 1
    /\ UNCHANGED <<conversations, observers, client_receiver, ui_receiver,
                   panicked, stdout, history, backend_list, started, last,
                   issued, fired, fetch_calls, processed>>
    /\ UNCHANGED clientVars

UiNext ==
    \/ Next
    \/ \E c \in ConvIds : ConversationViewClick(c)

UiSpec == Init /\ [][UiNext]_vars

\* The step is one arm of Controller::step taking a message off a channel.
ControllerStep ==
    \/ /\ started /\ ~panicked /\ client_receiver # <<>>
       /\ client_receiver' = Tail(client_receiver)
    \/ /\ started /\ ~panicked /\ ui_receiver # <<>>
       /\ ui_receiver' = Tail(ui_receiver)

\* C28: no step other than a step of the Controller changes the
\* conversation map, a message sequence, a fetched flag or the current
\* pointer; the renderer only places UI commands.
C28_OnlyControllerMutates ==
    [][(\/ conversations' # conversations
        \/ current_conversation' # current_conversation)
       => ControllerStep]_vars

\* ----------------------------------------------------------------- C29
\* C29: a switch to a conversation C whose fetched flag is false leaves
\* C.fetched true in the step that issues the fetch, and a step that merges
\* a fetched batch into C leaves C.fetched true.
C29_FetchedSetWhenFetchIssued ==
    [][\A c \in ConvIds :
        /\ (/\ TakesUi("SwitchConversation")
            /\ Head(ui_receiver).conversation_id = c
            /\ c \in DOMAIN conversations
            /\ ~conversations[c].fetched)
           => conversations'[c].fetched
        /\ (/\ TakesClient("MessageList")
            /\ Head(client_receiver).messages # <<>>
            /\ Head(client_receiver).messages[1].msg.conversation_id = c
            /\ c \in DOMAIN conversations)
           => conversations'[c].fetched]_vars

\* ----------------------------------------------------------------- C30
\* C30: for a switch to a conversation C whose fetched flag is false, the
\* conversation passed to on_conversation_change in that step already holds
\* every message of the batch the fetch of that step returns.
C30_ChangeCarriesFetchedBatch ==
    [][\A c \in ConvIds :
        (/\ TakesUi("SwitchConversation")
         /\ Head(ui_receiver).conversation_id = c
         /\ c \in DOMAIN conversations
         /\ ~conversations[c].fetched)
        => LET call == fetch_messages(conversations[c].data, FetchCount)
               batch == Respond(call).messages
           IN  \A i \in 1..Len(fired') :
                 fired'[i].method = "on_conversation_change"
                 => \A j \in 1..Len(batch) :
                      \E k \in 1..Len(fired'[i].args[1].messages) :
                         fired'[i].args[1].messages[k] = batch[j].msg]_vars

\* ----------------------------------------------------------------- C31
\* The read commands launched and not yet answered.
ReadsInFlight == SelectSeq(in_flight, LAMBDA command : command.method = "read")

\* C31: in every reachable state at most one fetch_messages request is in
\* flight.
C31_AtMostOneFetchInFlight ==
    Len(ReadsInFlight) <= 1

\* ----------------------------------------------------------------- C36
\* C36: processing an empty conversation list does not fail: the map and the
\* current pointer stay as they were and no fetch_messages call is issued.
C36_EmptyListDoesNotFail ==
    [][(/\ TakesClient("ConversationList")
        /\ Head(client_receiver).conversations = <<>>)
       => /\ ~panicked'
          /\ conversations' = conversations
          /\ current_conversation' = current_conversation
          /\ issued' = <<>>]_vars

\* ----------------------------------------------------------------- C37
\* C37: every message stored in the sequence of conversation C has
\* conversation_id equal to C's id (every MessageList answer holds the
\* messages of one conversation).
C37_MessagesUnderOwnConversation ==
    \A c \in DOMAIN conversations :
        /\ conversations[c].id = c
        /\ \A i \in 1..Len(conversations[c].messages) :
              conversations[c].messages[i].conversation_id = c

\* A batch was merged into a conversation that is not the current one, and
\* both conversations hold messages.
C37_Witness ==
    /\ last.arm = "client"
    /\ last.msg.type = "MessageList"
    /\ last.msg.messages # <<>>
    /\ LET c == last.msg.messages[1].msg.conversation_id
       IN  /\ c \in DOMAIN conversations
           /\ current_conversation \in DOMAIN conversations
           /\ current_conversation # c
           /\ conversations[c].messages # <<>>
           /\ conversations[current_conversation].messages # <<>>

\* ----------------------------------------------------------------- C38
\* C38: no backend message appears twice in the message sequence of its
\* conversation.
C38_MessageStoredOnce ==
    \A c \in DOMAIN conversations :
        \A i \in 1..Len(conversations[c].messages) :
            \A j \in 1..Len(conversations[c].messages) :
                conversations[c].messages[i] = conversations[c].messages[j]
                => i = j

C40_SendWithoutCurrentIsDropped ==
    [][(/\ TakesUi("SendMessage")
        /\ get_current_conversation(StateNow) = <<>>)
       => /\ issued' = <<>>
          /\ in_flight' = in_flight
          /\ conversations' = conversations
          /\ current_conversation' = current_conversation
          /\ fired' = <<>>
          /\ ~panicked']_vars

\* A SendMessage was taken before any conversation was loaded, and another
\* command waits behind it.
C40_Witness ==
    /\ last.arm = "ui"
    /\ last.msg.type = "SendMessage"
    /\ current_conversation = None
    /\ issued = <<>>
    /\ ~panicked
    /\ ui_receiver # <<>>

\* ----------------------------------------------------------------- C35
\* The call just made is one of the notifying mutations: set_conversations,
\* or insert_message / set_current_conversation with an id the map holds.
NotifyingCall ==
    \/ Calls("set_conversations")
    \/ /\ Calls("insert_message") \/ Calls("set_current_conversation")
       /\ last'.msg.conversation_id \in DOMAIN conversations

\* C35: a notifying mutation invokes the same notification on every
\* registered observer, each exactly once, in the order of registration, and
\* all of it within the mutating call.
C35_ObserversInRegistrationOrder ==
    [][NotifyingCall
       => /\ Len(fired') = Len(observers)
          /\ \A i \in 1..Len(fired') :
                /\ fired'[i].observer = observers[i]
                /\ fired'[i].method = fired'[1].method
                /\ fired'[i].args = fired'[1].args]_vars

\* A message was inserted into an existing conversation and the two
\* observers were notified, the first registered first.
C35_Witness ==
    /\ LastCall("insert_message")
    /\ Len(observers) = 2
    /\ observers[1] # observers[2]
    /\ Len(fired) = 2
    /\ fired[1].observer = observers[1]
    /\ fired[2].observer = observers[2]
    /\ fired[1].method = "on_message"

\* ===================================================================
\* client.rs: ClientExecutor, the one-off subprocess of a command
\* ===================================================================

\* How the subprocess "keybase chat api" ends.
ExitStatuses == {"zero", "nonzero"}

\* What the subprocess printed: bytes that are no JSON, or a JSON value.
Outputs ==
    {[valid |-> FALSE]}
    \cup {[valid |-> TRUE, json |-> v] : v \in GatewayValues}

\* One run of the subprocess: whether spawn(), the write to its stdin and
\* the wait for its output succeed, its exit status and its output.
SubprocessRuns ==
    [spawn : BOOLEAN, write : BOOLEAN, wait : BOOLEAN,
     status : ExitStatuses, stdout : Outputs]

\* ClientExecutor::run_api_command: spawn().expect(..), write_all(..)
\* .await.unwrap(), wait_with_output().await?, from_slice(&output.stdout)?,
\* Ok(parsed). output.status is never read.
run_api_command(command, run) ==
    IF ~run.spawn THEN Panic
    ELSE IF ~run.write THEN Panic
    ELSE IF ~run.wait THEN Err("io")
    ELSE IF ~run.stdout.valid THEN Err("json")
    ELSE Ran(run.stdout.json)

\* Commands handed to the executor.
GatewayCommands ==
    {fetch_conversations}
    \cup {read_command(channel, FetchCount) : channel \in Channels}

\* One submit: the caller awaits run_api_command and unwinds if it panics.
RunApiCommand(command, run) ==
    /\ session = "running"
    /\ facade_calls < MaxCalls
    /\ facade_calls' = facade_calls + 1
    /\ executor' = Append(executor, command)
    /\ LET result == run_api_command(command, run)
       IN  /\ last' = [arm |-> "executor",
                       msg |-> [type |-> "run_api_command",
                                command |-> command, run |-> run,
                                result |-> result]]
           /\ IF result.kind = "Panic"
              THEN OwnerEnds("panicked")
              ELSE UNCHANGED <<session, client, child>>
    /\ UNCHANGED <<reader, handles>>
    /\ UNCHANGED controllerVars

GatewayNext ==
    \E command \in GatewayCommands : \E run \in SubprocessRuns :
        RunApiCommand(command, run)

GatewaySpec == StateInit /\ [][GatewayNext]_vars

\* ----------------------------------------------------------------- C34
\* The error kinds of the submit contract, as the values the code returns:
\* an I/O error of the subprocess machinery, a JSON parse error.
TransportError == Err("io")
ProtocolError == Err("json")

\* C34: a submit never unwinds: it returns TransportError when the
\* subprocess cannot be spawned or exits with a nonzero status,
\* ProtocolError when its output is not valid JSON, and success only when
\* the subprocess was spawned, exited with status zero and printed valid
\* JSON.
C34_SubmitFailuresAreTyped ==
    last.arm = "executor" =>
        LET run == last.msg.run
            result == last.msg.result
        IN  /\ result.kind \in {"Ok", "Err"}
            /\ ~run.spawn => result = TransportError
            /\ (run.spawn /\ run.write /\ run.wait /\ run.status = "nonzero")
                  => result = TransportError
            /\ (run.spawn /\ run.write /\ run.wait /\ run.status = "zero"
                /\ ~run.stdout.valid)
                  => result = ProtocolError
            /\ result.kind = "Ok"
                  => run.spawn /\ run.status = "zero" /\ run.stdout.valid

\* ===================================================================
\* client.rs: the listener, its reader task and the channel
\* ===================================================================

\* Lines the listener prints in the runs that fill the channel.
MaxLines == 34

\* The listener subprocess prints one more chat event.
ListenerPrints(c) ==
    /\ child = "running"
    /\ Len(history) < MaxLines
    /\ LET message == [conversation_id |-> c, ts |-> Len(history) + 1]
       IN  /\ history' = Append(history, message)
           /\ stdout' = Append(stdout, ChatLine(message))
    /\ UNCHANGED <<current_conversation, conversations, observers,
                   client_receiver, ui_receiver, panicked, in_flight,
                   backend_list, started, last, issued, fired, fetch_calls,
                   placed, processed>>
    /\ UNCHANGED clientVars

\* The listener, the reader task and the Controller taking the events, while
\* the answer to the initial list command is still outstanding.
ListenerNext ==
    \/ Start
    \/ ListenerPrints("A")
    \/ ReaderTask
    \/ RecvChatMessage

ListenerSpec == Init /\ [][ListenerNext]_vars

\* The listener prints a line the reader cannot parse; one such line is
\* followed while the reader lives.
BackendEmitMalformed ==
    /\ child = "running"
    /\ reader = "running"
    /\ \A i \in 1..Len(stdout) : IsListenerEvent(stdout[i])
    /\ stdout' = Append(stdout, MalformedLine)
    /\ UNCHANGED <<current_conversation, conversations, observers,
                   client_receiver, ui_receiver, panicked, in_flight,
                   history, backend_list, started, last, issued, fired,
                   fetch_calls, placed, processed>>
    /\ UNCHANGED clientVars

\* The session with a listener that may print a malformed line or exit,
\* while the answer to the initial list command is still outstanding.
FaultNext ==
    \/ Start
    \/ \E m \in UiMessages : UiPlace(m)
    \/ \E c \in ConvIds : BackendEmit(c)
    \/ BackendEmitMalformed
    \/ ListenerExits
    \/ ReaderTask
    \/ RecvChatMessage
    \/ RecvSendMessage
    \/ RecvSwitchConversation

FaultSpec == Init /\ [][FaultNext]_vars

\* ----------------------------------------------------------------- C32
\* The reader task has a line to forward.
ReaderHasLine == reader = "running" /\ stdout # <<>> /\ ~panicked

\* C32: forwarding an event never suspends the reader task: whenever it has
\* a line, its next turn can be taken.
C32_ForwardingNeverBlocks ==
    ReaderHasLine => ENABLED ReaderTask

\* C32 (amended): the channel holds at most ChannelCapacity events, and the
\* reader task with a line to forward is suspended exactly when
\* ChannelCapacity forwarded events are waiting to be received.
C32_ForwardingBlocksOnlyWhenFull ==
    /\ Len(client_receiver) <= ChannelCapacity
    /\ ReaderHasLine
          => (ENABLED ReaderTask <=> Len(client_receiver) < ChannelCapacity)

\* The channel is full, the reader holds the next line, and the Controller
\* has already received events.
C32_Witness ==
    /\ Len(client_receiver) = ChannelCapacity
    /\ ReaderHasLine
    /\ processed # <<>>

\* ----------------------------------------------------------------- C33
\* The reader task has ended, by a panic on a malformed line or at the end
\* of the listener's output.
ReaderEnded == reader \in {"panicked", "done"}

====
